---- MODULE Spec2Model ----
(***************************************************************************)
(* cleantest: hook registry, LXD configuration store and LXD archon.       *)
(*                                                                         *)
(* The model follows the package that cleantest/meta/__init__.py exports:  *)
(*   cleantest/meta/base_configurer.py   _HookRegistry, BaseConfigurer     *)
(*   cleantest/lxd/config.py             LXDConfigurer                     *)
(*   cleantest/lxd/archon.py             LXDArchon                         *)
(*   cleantest/lxd/harness.py            lxd (decorator)                   *)
(*   cleantest/env.py                    Env                               *)
(* and, for the serial and parallel strategies, the entrypoints of         *)
(*   cleantest/provider/lxd/_lxd_harness.py                                *)
(* The LXD daemon (pylxd Client) is the environment: it holds the set of   *)
(* instances and their status.                                             *)
(***************************************************************************)
EXTENDS Integers, Sequences, FiniteSets, TLC

\* ---------------------------------------------------------------- bounds
MaxHooks == 3      \* hooks held by the registry, both queues together
MaxArgs == 2       \* arguments of one variadic call
MaxConfigs == 3    \* entries of the instance configuration registry
MaxCreate == 2     \* create calls issued for one instance name
MaxExec == 2       \* commands sent to one instance
CpuCount == 2      \* os.cpu_count() of the host
MaxFlips == 1      \* bits of the serialized data changed on the way
MaxPush == 1       \* push and pull calls served by one instance
MaxRunExec == 3    \* testlets run by the strategy runs, all instances together

\* ---------------------------------------------------------------- values
Targets == {"a", "b"}
HookNames == {"h1", "h2", "h3"}
HookClasses == {"StartEnvHook", "StopEnvHook"}
Hooks == [name : HookNames, cls : HookClasses]

DefaultKey == "ubuntu_jammy_amd64"
DefaultName == "ubuntu-jammy-amd64"
DefaultAlias == "ubuntu/jammy/cloud/amd64"
ConfigNames == {DefaultName, "X"}
Aliases == {DefaultAlias, "custom"}
Configs == [name : ConfigNames, alias : Aliases]

VARIABLES
    metadata,          \* _HookRegistry.metadata: set of <<name, class name>>
    startenv,          \* _HookRegistry.startenv: deque, index 1 is the left end
    stopenv,           \* _HookRegistry.stopenv
    instance_configs,  \* LXDConfigurer._instance_configs: dict in insertion order
    lxd,               \* LXD daemon: instance name -> "absent" | "running"
    trace,             \* per instance name: the calls the daemon served for it
    createCount,       \* per instance name: instances.create calls received
    created,           \* LXDArchon._instances
    op,                \* the archon call in progress (the caller is blocked in it)
    work,              \* per target: state of its work order in the pool
    run,               \* the lxd decorator's wrapper in progress
    result,            \* outcome of the most recent call that returned
    registered,        \* history: hooks in the order their registration succeeded
    exit,              \* per target: what its _execute work order returned
    results,           \* the dict the most recent call returned, if it was execute
    queries,           \* client calls made by the most recent push, pull or target run
    payload,           \* Injectable, its serialized form on the wire and what _loads made of it
    env,               \* Env._env: dict in insertion order
    got,               \* what the most recent Env.get or Env.dumps returned
    procenv,           \* per target: Env._env in the pool process that ran its deploy or execute work order
    environ,           \* os.environ["CLEANTEST_NUM_THREADS"]
    entry              \* LXDProviderEntrypoint: the strategy run in progress and what it yielded

vars == <<metadata, startenv, stopenv, instance_configs, lxd, trace, createCount,
          created, op, work, run, result, registered, exit, results, queries,
          payload, env, got, procenv, environ, entry>>

hookVars == <<metadata, startenv, stopenv, registered>>
lxdVars == <<lxd, trace, createCount>>
callerVars == <<queries, payload, env, got, environ, entry>>
sideVars == <<callerVars, procenv>>

\* ------------------------------------------------------------- sequences
Front(s) == SubSeq(s, 1, Len(s) - 1)
Last(s) == s[Len(s)]
Range(s) == {s[i] : i \in 1..Len(s)}
SetToSeq(S) == CHOOSE s \in [1..Cardinality(S) -> S] : Range(s) = S

RECURSIVE SeqsUpTo(_, _)
SeqsUpTo(S, n) ==
    IF n = 0 THEN {<<>>}
    ELSE LET shorter == SeqsUpTo(S, n - 1)
         IN shorter \cup {Append(s, x) : s \in {q \in shorter : Len(q) = n - 1}, x \in S}

\* =========================================================================
\* Hook registry (cleantest/meta/base_configurer.py)
\* =========================================================================

\* A lint that looks at the name alone.
lint_by_name(md, hook) == \E h \in md : hook.name = h[1]

\* _HookRegistry.lint: a hook is rejected when metadata holds its
\* (name, class name) pair.
lint(md, hook) == \E h \in md : hook.name = h[1] /\ hook.cls = h[2]

\* collections.deque.append, the right end
append_right(q, hook) == Append(q, hook)

\* collections.deque.appendleft
appendleft(q, hook) == <<hook>> \o q

\* The pair register_hook records: `hook` in that line is the tuple of all
\* arguments, so the class name recorded is "tuple".
metadata_entry(new_hook) == <<new_hook.name, "tuple">>

\* register_hook(*hook): the loop over the arguments; it stops at the first
\* argument lint rejects, keeping what the earlier arguments registered.
RECURSIVE register_loop(_, _)
register_loop(st, hooks) ==
    IF hooks = <<>> THEN st
    ELSE LET new_hook == Head(hooks)
         IN IF lint(st.metadata, new_hook)
            THEN [st EXCEPT !.err = "Error"]
            ELSE register_loop(
                   [metadata |-> st.metadata \cup {metadata_entry(new_hook)},
                    startenv |-> IF new_hook.cls = "StartEnvHook"
                                 THEN appendleft(st.startenv, new_hook)
                                 ELSE st.startenv,
                    stopenv |-> IF new_hook.cls = "StopEnvHook"
                                THEN appendleft(st.stopenv, new_hook)
                                ELSE st.stopenv,
                    registered |-> Append(st.registered, new_hook),
                    err |-> "none"],
                   Tail(hooks))

Idle == op.kind = "none" /\ run.pc = "idle"

Returned(name, err) == [op |-> name, err |-> err]

register_hook(hooks) ==
    /\ Idle
    /\ Len(startenv) + Len(stopenv) + Len(hooks) <= MaxHooks
    /\ LET st == register_loop([metadata |-> metadata, startenv |-> startenv,
                                stopenv |-> stopenv, registered |-> registered,
                                err |-> "none"], hooks)
       IN /\ metadata' = st.metadata
          /\ startenv' = st.startenv
          /\ stopenv' = st.stopenv
          /\ registered' = st.registered
          /\ result' = Returned("register_hook", st.err)
    /\ UNCHANGED <<instance_configs, lxd, trace, createCount, created, op, work, run>>
    /\ UNCHANGED <<sideVars, exit, results>>

\* unregister_hook(*hook_name): for every metadata pair with the name, the
\* queue is looked up by the pair's class name.  dispatch has the keys
\* "StartEnvHook" and "StopEnvHook" only: any other class name is a KeyError,
\* raised before anything is removed.  With a known class name the list
\* comprehension removes the hook from the deque it iterates, which raises
\* RuntimeError (deque mutated during iteration) after the removal and before
\* metadata.remove.
RECURSIVE remove_named(_, _)
remove_named(q, name) ==
    IF q = <<>> THEN <<>>
    ELSE IF Head(q).name = name THEN Tail(q)
    ELSE <<Head(q)>> \o remove_named(Tail(q), name)

RECURSIVE unregister_loop(_, _)
unregister_loop(st, names) ==
    IF names = <<>> THEN st
    ELSE LET name == Head(names)
             hits == {h \in st.metadata : h[1] = name}
         IN IF hits = {} THEN unregister_loop(st, Tail(names))
            ELSE IF \E h \in hits : h[2] \notin HookClasses
            THEN [st EXCEPT !.err = "KeyError"]
            ELSE LET h == CHOOSE x \in hits : TRUE
                     q == IF h[2] = "StartEnvHook" THEN st.startenv ELSE st.stopenv
                 IN IF \E i \in 1..Len(q) : q[i].name = name
                    THEN [st EXCEPT
                            !.startenv = IF h[2] = "StartEnvHook"
                                         THEN remove_named(@, name) ELSE @,
                            !.stopenv = IF h[2] = "StopEnvHook"
                                        THEN remove_named(@, name) ELSE @,
                            !.registered = remove_named(@, name),
                            !.err = "RuntimeError"]
                    ELSE [st EXCEPT !.metadata = @ \ {h},
                                    !.err = "RuntimeError"]

unregister_hook(names) ==
    /\ Idle
    /\ LET st == unregister_loop([metadata |-> metadata, startenv |-> startenv,
                                  stopenv |-> stopenv, registered |-> registered,
                                  err |-> "none"], names)
       IN /\ metadata' = st.metadata
          /\ startenv' = st.startenv
          /\ stopenv' = st.stopenv
          /\ registered' = st.registered
          /\ result' = Returned("unregister_hook", st.err)
    /\ UNCHANGED <<instance_configs, lxd, trace, createCount, created, op, work, run>>
    /\ UNCHANGED <<sideVars, exit, results>>

\* The queue handed out without copy.deepcopy.
startenv_hooks_shared == [shared |-> TRUE, items |-> startenv]

\* copy.deepcopy of the queue: what the caller pops is its own deque.
\* shared = TRUE would mean the caller holds the registry's deque itself.
startenv_hooks == [shared |-> FALSE, items |-> startenv]

stopenv_hooks == [shared |-> FALSE, items |-> stopenv]

\* `while hooks: hook = hooks.pop()`: the hooks in the order the loop of
\* _handle_startenv_hooks / _handle_stopenv_hooks takes them, right end first.
RECURSIVE pop_order(_)
pop_order(q) ==
    IF q = <<>> THEN <<>> ELSE <<Last(q)>> \o pop_order(Front(q))

\* The registry's own deque once a caller has popped its snapshot down to
\* `left`.
after_pops(snapshot, left, q) == IF snapshot.shared THEN left ELSE q

\* =========================================================================
\* Instance configuration registry (cleantest/lxd/config.py)
\* =========================================================================

\* dict(_DefaultInstances().items()): the keys are the attribute names of
\* _DefaultInstances, the values the InstanceConfig objects.
DefaultInstances ==
    <<[key |-> DefaultKey, cfg |-> [name |-> DefaultName, alias |-> DefaultAlias]]>>

keys(store) == {store[i].key : i \in 1..Len(store)}

\* self._instance_configs[config.name] = config
setitem(store, key, cfg) ==
    IF key \in keys(store)
    THEN [i \in 1..Len(store) |->
            IF store[i].key = key THEN [key |-> key, cfg |-> cfg] ELSE store[i]]
    ELSE Append(store, [key |-> key, cfg |-> cfg])

\* add_config(*new_config): a config is rejected when its name is a key of
\* the dict.
RECURSIVE add_loop(_, _)
add_loop(st, configs) ==
    IF configs = <<>> THEN st
    ELSE LET config == Head(configs)
         IN IF config.name \in keys(st.store)
            THEN [st EXCEPT !.err = "Error"]
            ELSE add_loop([store |-> setitem(st.store, config.name, config),
                           err |-> "none"], Tail(configs))

add_config(configs) ==
    /\ Idle
    /\ Len(instance_configs) + Len(configs) <= MaxConfigs
    /\ LET st == add_loop([store |-> instance_configs, err |-> "none"], configs)
       IN /\ instance_configs' = st.store
          /\ result' = Returned("add_config", st.err)
    /\ UNCHANGED <<hookVars, lxdVars, created, op, work, run>>
    /\ UNCHANGED <<sideVars, exit, results>>

\* remove_config(*name): the inner loop runs over the keys of the dict, which
\* are strings; `config.name` on the first key raises AttributeError.
remove_loop(store, names) ==
    IF names = <<>> \/ store = <<>>
    THEN [store |-> store, err |-> "none"]
    ELSE [store |-> store, err |-> "AttributeError"]

remove_config(names) ==
    /\ Idle
    /\ LET st == remove_loop(instance_configs, names)
       IN /\ instance_configs' = st.store
          /\ result' = Returned("remove_config", st.err)
    /\ UNCHANGED <<hookVars, lxdVars, created, op, work, run>>
    /\ UNCHANGED <<sideVars, exit, results>>

\* The first value whose name matches, handed out without copy.deepcopy.
fetch_config_shared(store, name) ==
    LET hits == {i \in 1..Len(store) : store[i].cfg.name = name}
    IN IF hits = {}
       THEN [found |-> FALSE, shared |-> FALSE, at |-> 0,
             cfg |-> [name |-> name, alias |-> "-"]]
       ELSE LET i == CHOOSE j \in hits : \A k \in hits : j <= k
            IN [found |-> TRUE, shared |-> TRUE, at |-> i, cfg |-> store[i].cfg]

\* fetch_config(name): the first value whose name matches, deep-copied.
\* found = FALSE is the KeyError.  shared = TRUE would mean the caller holds
\* the stored object itself.
fetch_config(store, name) ==
    LET hits == {i \in 1..Len(store) : store[i].cfg.name = name}
    IN IF hits = {}
       THEN [found |-> FALSE, shared |-> FALSE, at |-> 0,
             cfg |-> [name |-> name, alias |-> "-"]]
       ELSE LET i == CHOOSE j \in hits : \A k \in hits : j <= k
            IN [found |-> TRUE, shared |-> FALSE, at |-> i, cfg |-> store[i].cfg]

\* `config.name = work_order.target` on what fetch_config returned: the
\* registry as it is after the assignment.
after_rename(store, fetched, target) ==
    IF fetched.found /\ fetched.shared
    THEN [store EXCEPT ![fetched.at].cfg.name = target]
    ELSE store

\* The caller calls fetch_config directly.
fetch(name) ==
    /\ Idle
    /\ result' = Returned("fetch_config",
                          IF fetch_config(instance_configs, name).found
                          THEN "none" ELSE "KeyError")
    /\ UNCHANGED <<hookVars, instance_configs, lxdVars, created, op, work, run>>
    /\ UNCHANGED <<sideVars, exit, results>>

\* LXDConfigurer.clear: default instance configurations, then
\* BaseConfigurer.clear -> _HookRegistry.clear.
clear ==
    /\ Idle
    /\ instance_configs' = DefaultInstances
    /\ metadata' = {}
    /\ startenv' = <<>>
    /\ stopenv' = <<>>
    /\ registered' = <<>>
    /\ result' = Returned("clear", "none")
    /\ UNCHANGED <<lxdVars, created, op, work, run>>
    /\ UNCHANGED <<sideVars, exit, results>>

\* ------------------------------------------------------------------ dicts
\* A str is the sequence of its parts; a value of the store is a str or a
\* list of strs.
EnvStr(parts) == [list |-> FALSE, items |-> parts]
EnvList(items) == [list |-> TRUE, items |-> items]
\* dicts as sequences of entries with distinct keys, in insertion order
has_key(d, k) == \E i \in 1..Len(d) : d[i].key = k
lookup(d, k) == d[CHOOSE i \in 1..Len(d) : d[i].key = k].val

\* d[k] = v
dict_setitem(d, k, v) ==
    IF has_key(d, k)
    THEN [i \in 1..Len(d) |-> IF d[i].key = k THEN [key |-> k, val |-> v] ELSE d[i]]
    ELSE Append(d, [key |-> k, val |-> v])

\* dict.update(other)
RECURSIVE update(_, _)
update(d, other) ==
    IF other = <<>> THEN d
    ELSE update(dict_setitem(d, Head(other).key, Head(other).val), Tail(other))

\* No pool process holds a store.
NoProcEnv == [t \in Targets |-> <<>>]

\* =========================================================================
\* LXD archon (cleantest/lxd/archon.py)
\* =========================================================================

Ev(e) == [ev |-> e, hook |-> "-"]
HookEv(e, q) == [i \in 1..Len(q) |-> [ev |-> e, hook |-> q[i].name]]
Count(tr, e) == Cardinality({i \in 1..Len(tr) : tr[i].ev = e})

NoOp == [kind |-> "none", targets |-> <<>>, image |-> "-", resources |-> FALSE,
         via |-> "-"]
NoWork == [t \in Targets |-> "idle"]
NoRun == [pc |-> "idle", targets |-> <<>>, image |-> "-", i |-> 0, preserve |-> TRUE]

\* Result.exit_code of a command; NoExit stands for "no Result".
ExitCodes == {0, 1}
NoExit == -1
NoResults == [t \in Targets |-> NoExit]

\* Sequences of distinct targets: the `target` argument as a list.
TargetLists == {ts \in SeqsUpTo(Targets, Cardinality(Targets)) :
                  \A i, j \in 1..Len(ts) : i # j => ts[i] # ts[j]}

\* Python values by type: None, an int, a str holding the digits of an int.
None == [type |-> "NoneType", val |-> 0]
PyInt(n) == [type |-> "int", val |-> n]
PyStr(n) == [type |-> "str", val |-> n]

\* CLEANTEST_NUM_THREADS not in os.environ.
Unset == None

\* os.getenv("CLEANTEST_NUM_THREADS"): the str in os.environ, or None.
getenv == environ

\* thread_count(): os.getenv returns a str or None, so the test
\* `type(env_var) == int` never holds and the host's cpu count is returned.
thread_count ==
    LET env_var == getenv
    IN IF env_var # None /\ env_var.type = "int" THEN env_var.val ELSE CpuCount

\* exists(target): instances.exists on the daemon.
exists(target) == lxd[target] # "absent"

\* The existence loop with its outcome dropped: no target is reported.
missing_unchecked(targets) == {t \in Range(targets) : FALSE}

\* The loop `for target in targets: if not self.exists(target): raise Error`
\* that opens execute, restart, remove and push: the targets it raises for.
missing(targets) == {t \in Range(targets) : ~exists(t)}

\* Entering `with ProcessPoolExecutor(...)`: one work order per target.
submit(kind, targets, image, resources, via) ==
    /\ op' = [kind |-> kind, targets |-> targets, image |-> image,
              resources |-> resources, via |-> via]
    /\ work' = [t \in Targets |-> IF t \in Range(targets) THEN "queued" ELSE "idle"]

\* A pool process picks up a work order; at most max_workers run at a time.
worker_start(t) ==
    /\ op.kind # "none"
    /\ work[t] = "queued"
    /\ Cardinality({u \in Targets : work[u] = "running"}) < thread_count
    /\ work' = [work EXCEPT ![t] = "running"]
    /\ UNCHANGED <<hookVars, instance_configs, lxdVars, created, op, run, result>>
    /\ UNCHANGED <<sideVars, exit, results>>

\* The loop over the hooks not entered.
handle_startenv_hooks_skipped(snapshot) == [calls |-> <<>>, left |-> snapshot.items]

\* _handle_startenv_hooks(instance, hooks): the calls made in the instance,
\* one per hook popped.
handle_startenv_hooks(snapshot) ==
    [calls |-> HookEv("starthook", pop_order(snapshot.items)), left |-> <<>>]

\* _handle_stopenv_hooks(instance, hooks): `hook.pull` is read from the first
\* hook popped; StopEnvHook (cleantest/hooks/stopenv.py) has the fields name
\* and download only, so the read raises AttributeError and no hook is
\* dispatched.  ok = FALSE is that error.
handle_stopenv_hooks(snapshot) ==
    IF snapshot.items = <<>>
    THEN [ok |-> TRUE, calls |-> <<>>, left |-> <<>>]
    ELSE [ok |-> FALSE, calls |-> <<>>, left |-> Front(snapshot.items)]

\* deploy(target, image, provision_script, resources) by the caller.
deploy_call(targets, image, resources, via) ==
    /\ op.kind = "none"
    /\ targets # <<>>
    /\ \A t \in Range(targets) : createCount[t] < MaxCreate
    /\ submit("deploy", targets, image, resources, via)

deploy(targets, image) ==
    /\ Idle
    /\ deploy_call(targets, image, FALSE, "caller")
    /\ UNCHANGED <<hookVars, instance_configs, lxdVars, created, run, result>>
    /\ results' = NoResults
    /\ UNCHANGED <<sideVars, exit>>

\* The Env store of a pool process started by spawn: the class body's `{}`.
spawned(store) == <<>>

\* The Env store of a pool process started by fork, as ProcessPoolExecutor
\* does on Linux: the caller's store as it is when the process starts.
forked(store) == store

\* The start hooks built with packages=[Charmlib(...)].
CharmlibHooks == {"h1"}

\* json.loads of what Charmlib._run prints in the instance.
charmlib_stdout == <<[key |-> "PYTHONPATH", val |-> EnvStr(<<"/root/lib">>)]>>

\* `dispatch[package.__class__.__name__.lower()](result.stdout)`, that is
\* Env().add(json.loads(x)), for the hooks dispatched: store is Env._env of
\* the process that runs _handle_startenv_hooks.
RECURSIVE dispatch(_, _)
dispatch(store, calls) ==
    IF calls = <<>> THEN store
    ELSE dispatch(IF Head(calls).hook \in CharmlibHooks
                  THEN update(store, charmlib_stdout)
                  ELSE store,
                  Tail(calls))

\* _deploy(work_order) in a pool process: fetch_config, rename, create, start,
\* injection, resources, start hooks.  The daemon refuses to create an
\* instance under a name that is in use.  The pool process starts with the
\* caller's Env store and adds to its own.
do_deploy(t) ==
    LET fetched == fetch_config(instance_configs, op.image)
        snapshot == startenv_hooks
        hooked == handle_startenv_hooks(snapshot)
    IN /\ op.kind = "deploy"
       /\ work[t] = "running"
       /\ IF ~fetched.found
          THEN /\ work' = [work EXCEPT ![t] = "failed"]
               /\ UNCHANGED <<hookVars, instance_configs, lxdVars>>
          ELSE /\ instance_configs' = after_rename(instance_configs, fetched, t)
               /\ createCount' = [createCount EXCEPT ![t] = @ + 1]
               /\ IF exists(t)
                  THEN /\ work' = [work EXCEPT ![t] = "failed"]
                       /\ UNCHANGED <<hookVars, lxd, trace>>
                  ELSE /\ lxd' = [lxd EXCEPT ![t] = "running"]
                       /\ trace' = [trace EXCEPT ![t] =
                              <<Ev("create"), Ev("start")>>
                              \o (IF op.resources THEN <<Ev("push")>> ELSE <<>>)
                              \o hooked.calls]
                       /\ startenv' = after_pops(snapshot, hooked.left, startenv)
                       /\ work' = [work EXCEPT ![t] = "done"]
                       /\ UNCHANGED <<metadata, stopenv, registered>>
       /\ procenv' = [procenv EXCEPT ![t] =
              IF fetched.found /\ ~exists(t) THEN dispatch(forked(env), hooked.calls)
              ELSE forked(env)]
       /\ UNCHANGED <<created, op, run, result>>
       /\ UNCHANGED <<callerVars, exit, results>>

\* `for result in executor.map(...)`: results arrive in the order of the
\* work sheet; the first failed work order raises out of the loop.
RECURSIVE before_failure(_, _)
before_failure(targets, wk) ==
    IF targets = <<>> \/ wk[Head(targets)] = "failed" THEN <<>>
    ELSE <<Head(targets)>> \o before_failure(Tail(targets), wk)

finished == \A t \in Range(op.targets) : work[t] \in {"done", "failed", "cancelled"}
failure == IF \E t \in Range(op.targets) : work[t] = "failed" THEN "Error" ELSE "none"

\* The loop over executor.map has met a failed work order: every work order
\* before it in the work sheet is done and it has failed.
raised ==
    \E i \in 1..Len(op.targets) :
       /\ work[op.targets[i]] = "failed"
       /\ \A j \in 1..(i - 1) : work[op.targets[j]] = "done"

\* The exception leaves executor.map's result iterator, which cancels the
\* futures it has not yielded; cancel succeeds on a future no pool process
\* has been given yet, and that work order never runs.
cancel(t) ==
    /\ op.kind # "none"
    /\ raised
    /\ work[t] = "queued"
    /\ work' = [work EXCEPT ![t] = "cancelled"]
    /\ UNCHANGED <<hookVars, instance_configs, lxdVars, created, op, run, result>>
    /\ UNCHANGED <<sideVars, exit, results>>

\* execute(target, command) by the caller.
execute_call(targets, name, via) ==
    /\ op.kind = "none"
    /\ \A t \in Range(targets) : exists(t) => Count(trace[t], "exec") < MaxExec
    /\ exit' = NoResults
    /\ IF missing(targets) # {}
       THEN /\ result' = Returned(name, "Error")
            /\ results' = NoResults
            /\ UNCHANGED <<op, work>>
       ELSE /\ submit("execute", targets, "-", FALSE, via)
            /\ UNCHANGED <<result, results>>

execute(targets) ==
    /\ Idle
    /\ targets # <<>>
    /\ execute_call(targets, "execute", "caller")
    /\ UNCHANGED <<hookVars, instance_configs, lxdVars, created, run>>
    /\ UNCHANGED sideVars

\* `return work_order.target, Result(result.exit_code, ...)` with the exit
\* code taken as a reason to raise.
execute_outcome_asserted(code) == [ok |-> code = 0, exit |-> code]

\* `return work_order.target, Result(result.exit_code, result.stdout,
\* result.stderr)`: the exit code is passed on, whatever it is.
execute_outcome(code) == [ok |-> TRUE, exit |-> code]

\* _execute(work_order) in a pool process: instance.execute is called and
\* the command exits with some code (kept in exit), or the call raises.
\* self.env.dumps() reads the store of the pool process, which started with
\* the caller's.
do_execute(t) ==
    /\ op.kind = "execute"
    /\ work[t] = "running"
    /\ \/ /\ exists(t)
          /\ \E code \in ExitCodes :
               LET out == execute_outcome(code)
               IN /\ trace' = [trace EXCEPT ![t] = Append(@, Ev("exec"))]
                  /\ exit' = [exit EXCEPT ![t] = out.exit]
                  /\ work' = [work EXCEPT ![t] = IF out.ok THEN "done" ELSE "failed"]
       \/ /\ trace' = [trace EXCEPT ![t] = Append(@, Ev("exec"))]
          /\ work' = [work EXCEPT ![t] = "failed"]
          /\ UNCHANGED exit
    /\ procenv' = [procenv EXCEPT ![t] = forked(env)]
    /\ UNCHANGED <<hookVars, instance_configs, lxd, createCount, created, op, run,
                   result, results>>
    /\ UNCHANGED callerVars

\* remove(target) by the caller; destroy() is remove([*self._instances]).
remove_call(targets, name, via) ==
    /\ op.kind = "none"
    /\ IF missing(targets) # {}
       THEN /\ result' = Returned(name, "Error")
            /\ UNCHANGED <<op, work>>
       ELSE /\ submit("remove", targets, "-", FALSE, via)
            /\ UNCHANGED result

remove(targets) ==
    /\ Idle
    /\ targets # <<>>
    /\ remove_call(targets, "remove", "caller")
    /\ UNCHANGED <<hookVars, instance_configs, lxdVars, created, run>>
    /\ results' = NoResults
    /\ UNCHANGED <<sideVars, exit>>

destroy ==
    /\ Idle
    /\ \E targets \in TargetLists :
         /\ Range(targets) = created
         /\ remove_call(targets, "destroy", "destroy")
    /\ UNCHANGED <<hookVars, instance_configs, lxdVars, created, run>>
    /\ results' = NoResults
    /\ UNCHANGED <<sideVars, exit>>

\* _remove(work_order) in a pool process: stop hooks, stop, delete.
do_remove(t) ==
    LET snapshot == stopenv_hooks
        hooked == handle_stopenv_hooks(snapshot)
    IN /\ op.kind = "remove"
       /\ work[t] = "running"
       /\ IF ~exists(t)
          THEN /\ work' = [work EXCEPT ![t] = "failed"]
               /\ UNCHANGED <<lxd, trace, stopenv>>
          ELSE /\ stopenv' = after_pops(snapshot, hooked.left, stopenv)
               /\ IF hooked.ok
                  THEN /\ trace' = [trace EXCEPT ![t] =
                              @ \o hooked.calls \o <<Ev("stop"), Ev("delete")>>]
                       /\ lxd' = [lxd EXCEPT ![t] = "absent"]
                       /\ work' = [work EXCEPT ![t] = "done"]
                  ELSE /\ work' = [work EXCEPT ![t] = "failed"]
                       /\ UNCHANGED <<lxd, trace>>
       /\ UNCHANGED <<metadata, startenv, registered, instance_configs, createCount,
                      created, op, run, result>>
       /\ UNCHANGED <<sideVars, exit, results>>

\* ----------------------------------------------------------- push and pull

\* Owner arguments as the caller writes them.
Uids == {"None", "0", "1"}
Usernames == {"None", "'bob'"}
Groupnames == {"None", "'staff'"}

\* bool(x) of an owner argument.
truthy(x) == x \notin {"None", "0"}

\* `if uid and username` / `if gid and groupname`
both_given(id, name) == truthy(id) /\ truthy(name)

\* The instances.exists calls of the loop that opens push, up to the target
\* it raises for.
RECURSIVE exists_calls(_)
exists_calls(targets) ==
    IF targets = <<>> THEN <<>>
    ELSE <<[call |-> "exists", target |-> Head(targets)]>>
           \o (IF exists(Head(targets)) THEN exists_calls(Tail(targets)) ELSE <<>>)

Transfers(tr) == Count(tr, "push") + Count(tr, "pull")

\* push(target, src, dest, uid, username, gid, groupname) by the caller; src
\* is a file on the host.
push(targets, uid, username, gid, groupname) ==
    /\ Idle
    /\ targets # <<>>
    /\ \A t \in Range(targets) : exists(t) => Transfers(trace[t]) < MaxPush
    /\ queries' = exists_calls(targets)
    /\ results' = NoResults
    /\ IF missing(targets) # {}
          \/ both_given(uid, username)
          \/ both_given(gid, groupname)
       THEN /\ result' = Returned("push", "Error")
            /\ UNCHANGED <<op, work>>
       ELSE /\ submit("push", targets, "-", FALSE, "caller")
            /\ UNCHANGED result
    /\ UNCHANGED <<hookVars, instance_configs, lxdVars, created, run, exit, payload, env, got, procenv, environ, entry>>

\* _push(work_order) in a pool process: the object is written into the
\* instance and dumped there.
do_push(t) ==
    /\ op.kind = "push"
    /\ work[t] = "running"
    /\ trace' = [trace EXCEPT ![t] = Append(@, Ev("push"))]
    /\ work' = [work EXCEPT ![t] = "done"]
    /\ UNCHANGED <<hookVars, instance_configs, lxd, createCount, created, op, run,
                   result>>
    /\ UNCHANGED <<sideVars, exit, results>>

push_return ==
    /\ op.kind = "push"
    /\ finished
    /\ op' = NoOp
    /\ work' = NoWork
    /\ IF op.via = "target"
       THEN IF failure = "none"
            THEN run' = [run EXCEPT !.pc = "target_execute"] /\ UNCHANGED result
            ELSE run' = NoRun /\ result' = Returned("target", failure)
       ELSE run' = run /\ result' = Returned("push", failure)
    /\ UNCHANGED <<hookVars, instance_configs, lxdVars, created>>
    /\ UNCHANGED <<sideVars, exit, results>>

\* pull(target, src, dest, uid, username, gid, groupname) by the caller; src
\* is a file or a directory in the instance, or neither.
pull(target, uid, username, gid, groupname, found) ==
    /\ Idle
    /\ exists(target) => Transfers(trace[target]) < MaxPush
    /\ queries' = exists_calls(<<target>>)
    /\ results' = NoResults
    /\ IF ~exists(target)
          \/ both_given(uid, username)
          \/ both_given(gid, groupname)
       THEN /\ result' = Returned("pull", "Error")
            /\ UNCHANGED trace
       ELSE /\ trace' = [trace EXCEPT ![target] = Append(@, Ev("pull"))]
            /\ result' = Returned("pull", IF found THEN "none" ELSE "Error")
    /\ UNCHANGED <<hookVars, instance_configs, lxd, createCount, created, op, work, run,
                   exit, payload, env, got, procenv, environ, entry>>

\* =========================================================================
\* lxd decorator (cleantest/lxd/harness.py), wrapper()
\* =========================================================================


\* The num_threads argument of the decorator as the caller writes it.
NumThreads == {None, PyInt(0), PyInt(1), PyInt(CpuCount + 1)}

\* lxd(name, image, preserve, num_threads): the decorator is constructed.
lxd_init(num_threads) ==
    /\ Idle
    /\ environ' = IF num_threads.type # "int" \/ num_threads.val < 1
                  THEN PyStr(thread_count)
                  ELSE PyStr(num_threads.val)
    /\ UNCHANGED <<hookVars, instance_configs, lxdVars, created, op, work, run, result,
                   exit, results, queries, payload, env, got, procenv, entry>>

\* Calling the decorated function: instances are named after the images.
lxd_run(targets, image, preserve) ==
    /\ Idle
    /\ targets # <<>>
    /\ \A t \in Range(targets) : exists(t) => Count(trace[t], "exec") < MaxExec
    /\ \A t \in Range(targets) : ~exists(t) => createCount[t] < MaxCreate
    /\ run' = [pc |-> "build", targets |-> targets, image |-> image, i |-> 1,
               preserve |-> preserve]
    /\ UNCHANGED <<hookVars, instance_configs, lxdVars, created, op, work, result>>
    /\ results' = NoResults
    /\ UNCHANGED <<sideVars, exit>>

\* The wrapper after instance i has been dealt with.
next_instance ==
    IF run.i < Len(run.targets)
    THEN [run EXCEPT !.i = @ + 1]
    ELSE [run EXCEPT !.pc = "execute"]

\* `if archon.exists(name): archon.push(...) else: archon.deploy(...)`.
\* The push of the testlet into the one existing instance is taken as one
\* step.
run_build ==
    /\ run.pc = "build"
    /\ op.kind = "none"
    /\ LET t == run.targets[run.i]
       IN IF exists(t)
          THEN /\ trace' = [trace EXCEPT ![t] = Append(@, Ev("push"))]
               /\ run' = next_instance
               /\ UNCHANGED <<op, work>>
          ELSE /\ deploy_call(<<t>>, run.image, TRUE, "run")
               /\ UNCHANGED <<trace, run>>
    /\ UNCHANGED <<hookVars, instance_configs, lxd, createCount, created, result>>
    /\ UNCHANGED <<sideVars, exit, results>>

\* `results = archon.execute(instances, "python3 /root/testlet")`
run_execute ==
    /\ run.pc = "execute"
    /\ execute_call(run.targets, "lxd", "run")
    /\ run' = IF missing(run.targets) # {} THEN NoRun ELSE run
    /\ UNCHANGED <<hookVars, instance_configs, lxdVars, created>>
    /\ UNCHANGED sideVars

\* `if not self._preserve: archon.destroy()`
run_teardown ==
    /\ run.pc = "teardown"
    /\ \E targets \in TargetLists :
         /\ Range(targets) = created
         /\ remove_call(targets, "lxd", "run")
    /\ run' = IF missing(SetToSeq(created)) # {} THEN NoRun ELSE run
    /\ results' = IF missing(SetToSeq(created)) # {} THEN NoResults ELSE results
    /\ UNCHANGED <<hookVars, instance_configs, lxdVars, created>>
    /\ UNCHANGED <<sideVars, exit>>

\* =========================================================================
\* Target strategies: lxd.target (cleantest/lxd/harness.py) and the serial
\* target entrypoint (cleantest/provider/lxd/_lxd_harness.py)
\* =========================================================================

\* wrapper() of lxd.target(*instances): every instance is verified, then the
\* testlet is pushed and executed.  archon.push takes the testlet text as a
\* path on the host: found says whether a file of that name is there.
target_run(targets, found) ==
    /\ Idle
    /\ targets # <<>>
    /\ \A t \in Range(targets) :
         exists(t) => Count(trace[t], "exec") < MaxExec /\ Transfers(trace[t]) < MaxPush
    /\ queries' = exists_calls(targets)
                    \o (IF missing(targets) = {} THEN exists_calls(targets) ELSE <<>>)
    /\ results' = NoResults
    /\ IF missing(targets) # {}
       THEN /\ result' = Returned("target", "Error")
            /\ UNCHANGED <<op, work, run>>
       ELSE IF ~found
       THEN /\ result' = Returned("target", "FileNotFoundError")
            /\ UNCHANGED <<op, work, run>>
       ELSE /\ submit("push", targets, "-", FALSE, "target")
            /\ run' = [pc |-> "target", targets |-> targets, image |-> "-", i |-> 0,
                       preserve |-> TRUE]
            /\ UNCHANGED result
    /\ UNCHANGED <<hookVars, instance_configs, lxdVars, created, exit, payload, env, got, procenv, environ, entry>>

\* `results = archon.execute([*instances], "python3 /root/testlet")`
target_execute ==
    /\ run.pc = "target_execute"
    /\ execute_call(run.targets, "target", "target")
    /\ run' = IF missing(run.targets) # {} THEN NoRun ELSE run
    /\ UNCHANGED <<hookVars, instance_configs, lxdVars, created>>
    /\ UNCHANGED sideVars

\* _run with preserve off, on an instance that exists: the testlet is
\* executed and the instance torn down.
run_calls == <<Ev("put"), Ev("exec"), Ev("stop"), Ev("delete")>>

\* _run_target(instance): _execute puts the testlet into the instance and
\* executes it; nothing else is called.
run_target_calls == <<Ev("put"), Ev("exec")>>

\* Calling a function decorated for the serial target strategy:
\* _serial_target_entrypoint is a generator, so the call only hands the
\* generator to the caller.
serial_target(targets) ==
    /\ Idle
    /\ targets # <<>>
    /\ \A t \in Range(targets) : exists(t) => Count(trace[t], "exec") < MaxExec
    /\ run' = [pc |-> "serial_target", targets |-> targets, image |-> "-", i |-> 1,
               preserve |-> TRUE]
    /\ results' = NoResults
    /\ UNCHANGED <<hookVars, instance_configs, lxdVars, created, op, work, result>>
    /\ UNCHANGED <<sideVars, exit>>

\* The caller takes the next item from the generator: the instance is
\* verified and the testlet run in it, and its Result is handed over; or the
\* instance is missing or the daemon call raises; or the generator is
\* exhausted.
serial_target_next ==
    /\ run.pc = "serial_target"
    /\ IF run.i > Len(run.targets)
       THEN /\ run' = NoRun
            /\ result' = Returned("serial_target", "none")
            /\ UNCHANGED <<trace, results>>
       ELSE LET t == run.targets[run.i]
            IN IF ~exists(t)
               THEN /\ run' = NoRun
                    /\ result' = Returned("serial_target", "Error")
                    /\ UNCHANGED <<trace, results>>
               ELSE /\ trace' = [trace EXCEPT ![t] = @ \o run_target_calls]
                    /\ \/ /\ \E code \in ExitCodes :
                                results' = [results EXCEPT ![t] = code]
                          /\ run' = [run EXCEPT !.i = @ + 1]
                          /\ UNCHANGED result
                       \/ /\ run' = NoRun
                          /\ result' = Returned("serial_target", "Error")
                          /\ UNCHANGED results
    /\ UNCHANGED <<hookVars, instance_configs, lxd, createCount, created, op, work>>
    /\ UNCHANGED <<sideVars, exit>>

\* The `with` block ends when every work order has finished; the call
\* returns to the caller, or to the wrapper that made it.
deploy_return ==
    /\ op.kind = "deploy"
    /\ finished
    /\ created' = created \cup Range(before_failure(op.targets, work))
    /\ op' = NoOp
    /\ work' = NoWork
    /\ IF op.via = "run"
       THEN IF failure = "none"
            THEN run' = next_instance /\ UNCHANGED result
            ELSE run' = NoRun /\ result' = Returned("lxd", failure)
       ELSE run' = run /\ result' = Returned("deploy", failure)
    /\ procenv' = NoProcEnv
    /\ UNCHANGED <<hookVars, instance_configs, lxdVars>>
    /\ UNCHANGED <<callerVars, exit, results>>

\* The pool processes end with the `with` block, and their stores with them.
execute_return ==
    /\ op.kind = "execute"
    /\ finished
    /\ op' = NoOp
    /\ work' = NoWork
    /\ IF op.via = "run"
       THEN IF failure = "none" /\ ~run.preserve
            THEN run' = [run EXCEPT !.pc = "teardown"] /\ UNCHANGED result
            ELSE run' = NoRun /\ result' = Returned("lxd", failure)
       ELSE IF op.via = "target"
       THEN run' = NoRun /\ result' = Returned("target", failure)
       ELSE run' = run /\ result' = Returned("execute", failure)
    /\ results' = IF failure = "none"
                  THEN [t \in Targets |-> IF t \in Range(op.targets) THEN exit[t]
                                          ELSE NoExit]
                  ELSE NoResults
    /\ exit' = NoResults
    /\ procenv' = NoProcEnv
    /\ UNCHANGED <<hookVars, instance_configs, lxdVars, created>>
    /\ UNCHANGED callerVars

remove_return ==
    /\ op.kind = "remove"
    /\ finished
    /\ op' = NoOp
    /\ work' = NoWork
    /\ IF op.via = "run"
       THEN run' = NoRun /\ result' = Returned("lxd", failure)
       ELSE /\ run' = run
            /\ result' = Returned(IF op.via = "destroy" THEN "destroy" ELSE "remove",
                                  failure)
    /\ results' = IF op.via = "run" /\ failure # "none" THEN NoResults ELSE results
    /\ UNCHANGED <<hookVars, instance_configs, lxdVars, created>>
    /\ UNCHANGED <<sideVars, exit>>

\* =========================================================================
\* Injectable (cleantest/meta/mixins.py) and the classes built on it
\* =========================================================================

\* The Python values the attributes take.  The position of a value in this
\* list is the byte that stands for it in a pickle.
PyValues ==
    <<"None", "True", "False", "'r'", "['r']", "['r', 's']", "[]",
      "'/s'", "Path('/s')", "'/d'", "Path('/d')", "b'tar'">>

Classes == <<"File", "Dir", "Pip", "Charmlib">>

Attr(k, v) == [key |-> k, val |-> v]

\* pathlib.Path(x)
Path(v) ==
    IF v = "'/s'" THEN "Path('/s')" ELSE IF v = "'/d'" THEN "Path('/d')" ELSE v

\* `[x] if type(x) == str else x`
as_list(v) == IF v = "'r'" THEN "['r']" ELSE v

is_list(v) == v \in {"['r']", "['r', 's']", "[]"}
len(v) == IF v = "['r']" THEN 1 ELSE IF v = "['r', 's']" THEN 2 ELSE 0

\* File.__init__(src, dest, overwrite): the __dict__ it leaves, in the order
\* of the assignments.
File_init(src, dest, overwrite) ==
    <<Attr("src", src), Attr("dest", Path(dest)), Attr("overwrite", overwrite),
      Attr("_data", "None")>>

\* Pip.__init__: the lint rules read the arguments, not the attributes.
Pip_lint(packages, requirements, constraints) ==
    \/ packages = "None" /\ requirements = "None"
    \/ requirements = "None" /\ constraints # "None"
    \/ /\ is_list(requirements) /\ is_list(constraints)
       /\ len(requirements) # len(constraints)

\* cls(*args): ok = FALSE is the constructor raising.
construct(cls, args) ==
    CASE cls = "File" ->
           [ok |-> TRUE, cls |-> cls, dict |-> File_init(args[1], args[2], args[3])]
      [] cls = "Dir" ->
           [ok |-> TRUE, cls |-> cls,
            dict |-> File_init(Path(args[1]), args[2], args[3])]
      [] cls = "Pip" ->
           [ok |-> ~Pip_lint(args[1], args[2], args[3]), cls |-> cls,
            dict |-> <<Attr("packages", as_list(args[1])),
                       Attr("requirements", as_list(args[2])),
                       Attr("_requirements_store", "[]"),
                       Attr("constraints", as_list(args[3])),
                       Attr("_constraints_store", "[]")>>]
      [] cls = "Charmlib" ->
           [ok |-> TRUE, cls |-> cls,
            dict |-> <<Attr("auth_token_path", Path(args[1])),
                       Attr("charmlibs", as_list(args[2])),
                       Attr("_auth_token", "None")>>]

\* setattr(obj, key, value)
setattr(dict, key, val) ==
    IF \E i \in 1..Len(dict) : dict[i].key = key
    THEN [i \in 1..Len(dict) |-> IF dict[i].key = key THEN Attr(key, val) ELSE dict[i]]
    ELSE Append(dict, Attr(key, val))

\* File.load sets self._data; Dir.load sets self.__data, which inside class
\* Dir is the attribute _Dir__data.
load_data(obj) ==
    IF obj.cls = "Dir"
    THEN [obj EXCEPT !.dict = setattr(@, "_Dir__data", "b'tar'")]
    ELSE [obj EXCEPT !.dict = setattr(@, "_data", "b'tar'")]

IndexOf(seq, x) == CHOOSE i \in 1..Len(seq) : seq[i] = x

\* The attribute names of an object of a class that has n attributes.
KeysOf(cls, n) ==
    LET made == construct(cls, <<"None", "None", "None">>).dict
    IN [i \in 1..n |-> IF i <= Len(made) THEN made[i].key ELSE "_Dir__data"]

\* pickle.dumps(obj): one byte for the class, one for each attribute value
\* in the order of __dict__.
pickle_dumps(obj) ==
    <<128 + IndexOf(Classes, obj.cls)>>
      \o [i \in 1..Len(obj.dict) |-> IndexOf(PyValues, obj.dict[i].val)]

\* pickle.loads(bytes)
pickle_loads(bytes) ==
    LET cls == Classes[bytes[1] - 128]
        names == KeysOf(cls, Len(bytes) - 1)
    IN [cls |-> cls,
        dict |-> [i \in 1..(Len(bytes) - 1) |-> Attr(names[i], PyValues[bytes[i + 1]])]]

\* hashlib.sha224(bytes).hexdigest(), taken as free of collisions.
sha224(bytes) == <<"sha224", bytes>>

\* The base64 alphabet: character code of a sextet, and sextet of a
\* character code (64 for a character outside the alphabet).
Ascii(x) ==
    IF x < 26 THEN 65 + x ELSE IF x < 52 THEN 71 + x ELSE IF x < 62 THEN x - 4
    ELSE IF x = 62 THEN 43 ELSE 47
Sextet(c) ==
    IF c >= 65 /\ c <= 90 THEN c - 65
    ELSE IF c >= 97 /\ c <= 122 THEN c - 71
    ELSE IF c >= 48 /\ c <= 57 THEN c + 4
    ELSE IF c = 43 THEN 62 ELSE IF c = 47 THEN 63 ELSE 64

\* base64.b64encode(bytes).decode(): the character codes of the text.
RECURSIVE b64encode(_)
b64encode(bs) ==
    IF bs = <<>> THEN <<>>
    ELSE LET n == IF Len(bs) >= 3 THEN 3 ELSE Len(bs)
             b1 == bs[1]
             b2 == IF n >= 2 THEN bs[2] ELSE 0
             b3 == IF n = 3 THEN bs[3] ELSE 0
         IN <<Ascii(b1 \div 4),
              Ascii((b1 % 4) * 16 + b2 \div 16),
              IF n >= 2 THEN Ascii((b2 % 16) * 4 + b3 \div 64) ELSE 61,
              IF n = 3 THEN Ascii(b3 % 64) ELSE 61>>
            \o b64encode(SubSeq(bs, n + 1, Len(bs)))

\* binascii.a2b_base64 as base64.b64decode calls it (validate=False):
\* characters outside the alphabet are skipped, the bits of the last
\* character that do not fill a byte are dropped, and what follows the
\* padding is not read.  ok = FALSE is binascii.Error.
RECURSIVE a2b_base64(_, _, _, _, _)
a2b_base64(cs, quad_pos, leftchar, pads, out) ==
    IF cs = <<>> THEN [ok |-> quad_pos = 0, bytes |-> out]
    ELSE LET this_ch == Sextet(Head(cs))
             rest == Tail(cs)
         IN IF Head(cs) = 61
            THEN IF quad_pos >= 2 /\ quad_pos + pads + 1 >= 4
                 THEN [ok |-> TRUE, bytes |-> out]
                 ELSE a2b_base64(rest, quad_pos, leftchar,
                                 IF quad_pos >= 2 THEN pads + 1 ELSE pads, out)
            ELSE IF this_ch = 64 THEN a2b_base64(rest, quad_pos, leftchar, pads, out)
            ELSE CASE quad_pos = 0 -> a2b_base64(rest, 1, this_ch, 0, out)
                   [] quad_pos = 1 ->
                        a2b_base64(rest, 2, this_ch % 16, 0,
                                   Append(out, leftchar * 4 + this_ch \div 16))
                   [] quad_pos = 2 ->
                        a2b_base64(rest, 3, this_ch % 4, 0,
                                   Append(out, leftchar * 16 + this_ch \div 4))
                   [] quad_pos = 3 ->
                        a2b_base64(rest, 0, 0, 0, Append(out, leftchar * 64 + this_ch))

\* base64.b64decode(data) of a str: ascii is FALSE when the text has a
\* character that is not ASCII (ValueError).
b64decode(data) ==
    IF \E i \in 1..Len(data) : data[i] >= 128
    THEN [ascii |-> FALSE, ok |-> FALSE, bytes |-> <<>>]
    ELSE LET bin == a2b_base64(data, 0, 0, 0, <<>>)
         IN [ascii |-> TRUE, ok |-> bin.ok, bytes |-> bin.bytes]

NoObj == [cls |-> "-", dict |-> <<>>]

\* key.startswith("_")
startswith_(key) ==
    key \in {"_data", "_Dir__data", "_requirements_store", "_constraints_store",
             "_auth_token"}

\* `checksum != hashlib.sha224(tmp).hexdigest()`
hashes_match(checksum, bytes) == checksum = sha224(bytes)

\* Injectable._loads(checksum, data) of class cls.
loads(cls, checksum, data) ==
    LET tmp == b64decode(data)
    IN IF ~tmp.ascii THEN [outcome |-> "ValueError", made |-> NoObj]
       ELSE IF ~tmp.ok THEN [outcome |-> "binascii.Error", made |-> NoObj]
       ELSE IF ~hashes_match(checksum, tmp.bytes)
       THEN [outcome |-> "Error: hashes do not match", made |-> NoObj]
       ELSE LET obj == pickle_loads(tmp.bytes)
                posargs == SelectSeq(obj.dict, LAMBDA a : ~startswith_(a.key))
                hiddenargs == SelectSeq(obj.dict, LAMBDA a : startswith_(a.key))
                new_cls == construct(cls, [i \in 1..Len(posargs) |-> posargs[i].val])
                with_hidden[i \in 0..Len(hiddenargs)] ==
                    IF i = 0 THEN new_cls.dict
                    ELSE setattr(with_hidden[i - 1], hiddenargs[i].key, hiddenargs[i].val)
            IN IF ~new_cls.ok
               THEN [outcome |-> "Error: lint rule failed", made |-> NoObj]
               ELSE [outcome |-> "loaded",
                     made |-> [cls |-> cls, dict |-> with_hidden[Len(hiddenargs)]]]

NoPayload ==
    [obj |-> NoObj, checksum |-> <<>>, sent |-> <<>>, data |-> <<>>, flips |-> 0,
     outcome |-> "-", made |-> NoObj]

archonVars == <<hookVars, instance_configs, lxdVars, created, op, work, run, result,
                exit, results, queries>>

\* The arguments the classes are constructed with.
InjectableArgs(cls) ==
    CASE cls \in {"File", "Dir"} ->
           {<<"'/s'", "'/d'", overwrite>> : overwrite \in {"True", "False"}}
      [] cls = "Pip" ->
           LET A == {"None", "'r'", "['r']", "['r', 's']"}
           IN {<<packages, requirements, constraints>> :
                 packages \in A, requirements \in A, constraints \in A}
      [] cls = "Charmlib" ->
           {<<"'/s'", charmlibs>> : charmlibs \in {"'r'", "['r', 's']"}}

\* An Injectable is constructed by the test author.
new_injectable(cls, args) ==
    /\ payload = NoPayload
    /\ construct(cls, args).ok
    /\ payload' = [payload EXCEPT !.obj = [cls |-> cls, dict |-> construct(cls, args).dict]]
    /\ UNCHANGED <<archonVars, env, got, procenv, environ, entry>>

\* File.load / Dir.load before the object is serialized.
load ==
    /\ payload.obj.cls \in {"File", "Dir"}
    /\ payload.sent = <<>>
    /\ load_data(payload.obj) # payload.obj
    /\ payload' = [payload EXCEPT !.obj = load_data(@)]
    /\ UNCHANGED <<archonVars, env, got, procenv, environ, entry>>

\* Injectable._dumps: checksum and data as they are put on the wire.
dumps ==
    /\ payload.obj # NoObj
    /\ payload.sent = <<>>
    /\ LET pickle_data == pickle_dumps(payload.obj)
       IN payload' = [payload EXCEPT !.checksum = sha224(pickle_data),
                                     !.data = b64encode(pickle_data),
                                     !.sent = b64encode(pickle_data)]
    /\ UNCHANGED <<archonVars, env, got, procenv, environ, entry>>

\* Bit k of character i of the data changes between _dumps and _loads.
flip(i, k) ==
    /\ payload.sent # <<>>
    /\ payload.outcome = "-"
    /\ payload.flips < MaxFlips
    /\ i \in 1..Len(payload.data)
    /\ LET c == payload.data[i]
           bit == (c \div (2 ^ k)) % 2
       IN payload' = [payload EXCEPT
                        !.data[i] = IF bit = 1 THEN c - 2 ^ k ELSE c + 2 ^ k,
                        !.flips = @ + 1]
    /\ UNCHANGED <<archonVars, env, got, procenv, environ, entry>>

\* cls._loads(checksum, data) on the receiving side.
deserialize ==
    /\ payload.sent # <<>>
    /\ payload.outcome = "-"
    /\ LET loaded == loads(payload.obj.cls, payload.checksum, payload.data)
       IN payload' = [payload EXCEPT !.outcome = loaded.outcome, !.made = loaded.made]
    /\ UNCHANGED <<archonVars, env, got, procenv, environ, entry>>

\* =========================================================================
\* Env (cleantest/env.py)
\* =========================================================================

EnvKeys == {"PYTHONPATH", "k"}

EnvValues ==
    {EnvStr(<<"x">>), EnvList(<<>>), EnvList(<<"a">>), EnvList(<<"b">>),
     EnvList(<<"a", "b">>)}

\* dicts as sequences of entries with distinct keys, in insertion order
EnvMappings ==
    {m \in SeqsUpTo([key : EnvKeys, val : EnvValues], Cardinality(EnvKeys)) :
       \A i, j \in 1..Len(m) : i # j => m[i].key # m[j].key}

pathsep == ":"

\* sep.join(items)
RECURSIVE join(_, _)
join(sep, items) ==
    IF items = <<>> THEN <<>>
    ELSE IF Len(items) = 1 THEN <<items[1]>>
    ELSE <<items[1], sep>> \o join(sep, Tail(items))

NoValue == [kind |-> "None", str |-> <<>>, dict |-> <<>>]
StrValue(parts) == [kind |-> "str", str |-> parts, dict |-> <<>>]
Defaults == {NoValue, StrValue(<<"d">>)}

\* os.pathsep.join(v) for a list, v itself otherwise
joined(v) == IF v.list THEN join(pathsep, v.items) ELSE v.items

\* The dict Env.dumps builds from the store d.
env_dumps(d) == [i \in 1..Len(d) |-> [key |-> d[i].key, val |-> joined(d[i].val)]]

envVars == <<hookVars, instance_configs, lxdVars, created, op, work, run, result,
             exit, results, queries, payload, procenv, environ, entry>>

\* Env.add(env_mapping)
Env_add(env_mapping) ==
    /\ env' = update(env, env_mapping)
    /\ UNCHANGED <<envVars, got>>

\* Env.remove(env_var)
Env_remove(env_var) ==
    /\ env' = IF has_key(env, env_var)
              THEN SelectSeq(env, LAMBDA e : e.key # env_var)
              ELSE env
    /\ UNCHANGED <<envVars, got>>

\* Env.get(env_var, default)
Env_get(env_var, default) ==
    /\ got' = IF has_key(env, env_var)
              THEN StrValue(joined(lookup(env, env_var)))
              ELSE default
    /\ UNCHANGED <<envVars, env>>

\* Env.clear()
Env_clear ==
    /\ env' = <<>>
    /\ UNCHANGED <<envVars, got>>

\* Env.dumps()
Env_dumps ==
    /\ got' = [kind |-> "dict", str |-> <<>>, dict |-> env_dumps(env)]
    /\ UNCHANGED <<envVars, env>>

\* =========================================================================
\* Fresh strategies (cleantest/provider/lxd/_lxd_harness.py)
\* =========================================================================

\* Result of a testlet that reports what it finds: the packages the start
\* hooks have installed in its instance and its process environment.
NoResult == [kind |-> "none", installed |-> {}, environment |-> <<>>]
TestletResult(packages, environment) ==
    [kind |-> "Result", installed |-> packages, environment |-> environment]
NoYield == [t \in Targets |-> NoResult]

NoEntry == [pc |-> "idle", targets |-> <<>>, preserve |-> TRUE, num_threads |-> 0,
            broken |-> {}, ran |-> NoYield, yielded |-> NoYield, serial |-> NoYield]

\* The hooks dispatched in an instance since it was created.
RECURSIVE installed(_)
installed(calls) ==
    IF calls = <<>> \/ Last(calls).ev = "create" THEN {}
    ELSE (IF Last(calls).ev = "starthook" THEN {Last(calls).hook} ELSE {})
           \cup installed(Front(calls))

\* _run(instance) in a process whose Env store is `store`, on an instance
\* with the given status and calls served so far: _init, start hooks,
\* _execute, stop hooks, _teardown.  raises: the daemon fails the execute
\* call.
run_instance(status, calls, snapshot, store, preserve, raises) ==
    LET hooked == HookEv("starthook", pop_order(snapshot.items))
        built == calls
                   \o (IF status = "absent" THEN <<Ev("create"), Ev("start")>> ELSE <<>>)
                   \o hooked
        added == dispatch(store, hooked)
        executed == built \o <<Ev("put"), Ev("exec")>>
    IN IF raises
       THEN [ok |-> FALSE, lxd |-> "running", trace |-> executed, store |-> added,
             result |-> NoResult]
       ELSE [ok |-> TRUE,
             lxd |-> IF preserve THEN "running" ELSE "absent",
             trace |-> executed \o HookEv("stophook", pop_order(stopenv_hooks.items))
                         \o (IF preserve THEN <<>> ELSE <<Ev("stop"), Ev("delete")>>),
             store |-> added,
             result |-> TestletResult(installed(built), env_dumps(added))]

\* _serial_entrypoint drained by the caller: _run on one instance after the
\* other in the caller's process, up to the first that raises.
RECURSIVE serial_entrypoint(_, _, _, _)
serial_entrypoint(st, targets, preserve, broken) ==
    IF targets = <<>> \/ ~st.ok THEN st
    ELSE LET t == Head(targets)
             snapshot == [startenv_hooks EXCEPT !.items = st.startenv]
             r == run_instance(st.lxd[t], st.trace[t], snapshot, st.env, preserve,
                               t \in broken)
         IN serial_entrypoint(
              [ok |-> r.ok,
               lxd |-> [st.lxd EXCEPT ![t] = r.lxd],
               trace |-> [st.trace EXCEPT ![t] = r.trace],
               env |-> r.store,
               startenv |-> after_pops(snapshot, <<>>, st.startenv),
               yielded |-> IF r.ok THEN [st.yielded EXCEPT ![t] = r.result]
                           ELSE st.yielded],
              Tail(targets), preserve, broken)

\* The caller's process and the daemon as a strategy run finds them.
here == [ok |-> TRUE, lxd |-> lxd, trace |-> trace, env |-> env, startenv |-> startenv,
         yielded |-> NoYield]

created_calls(before, after) ==
    [t \in Targets |-> createCount[t] + Count(after[t], "create") - Count(before[t], "create")]

\* The testlets run so far in the instances of S.
RECURSIVE Executed(_)
Executed(S) ==
    IF S = {} THEN 0
    ELSE LET t == CHOOSE u \in S : TRUE
         IN Count(trace[t], "exec") + Executed(S \ {t})

\* A function decorated with lxd(image=[...], preserve=...) is called and
\* the generator it returns drained.
serial(targets, preserve, broken) ==
    /\ Idle
    /\ targets # <<>>
    /\ Executed(Targets) + Len(targets) <= MaxRunExec
    /\ LET st == serial_entrypoint(here, targets, preserve, broken)
       IN /\ lxd' = st.lxd
          /\ trace' = st.trace
          /\ createCount' = created_calls(trace, st.trace)
          /\ env' = st.env
          /\ startenv' = st.startenv
          /\ entry' = [NoEntry EXCEPT !.yielded = st.yielded, !.serial = st.yielded]
          /\ result' = Returned("serial", IF st.ok THEN "none" ELSE "Error")
    /\ UNCHANGED <<metadata, stopenv, registered, instance_configs, created, op, work,
                   run, exit, results, queries, payload, got, procenv, environ>>

\* A function decorated with lxd(image=[...], parallel=True, num_threads=...)
\* is called and the generator drained: _parallel_entrypoint maps _run over
\* the instances in a pool of num_threads processes.  serial keeps what the
\* serial strategy yields on the same call.
parallel(targets, preserve, num_threads, broken) ==
    /\ Idle
    /\ targets # <<>>
    /\ Executed(Targets) + Len(targets) <= MaxRunExec
    /\ submit("run", targets, "-", FALSE, "parallel")
    /\ entry' = [pc |-> "parallel", targets |-> targets, preserve |-> preserve,
                 num_threads |-> num_threads, broken |-> broken, ran |-> NoYield,
                 yielded |-> NoYield,
                 serial |-> serial_entrypoint(here, targets, preserve, broken).yielded]
    /\ UNCHANGED <<hookVars, instance_configs, lxdVars, created, run, result, exit,
                   results, queries, payload, env, got, procenv, environ>>

\* A pool process takes an instance; at most num_threads run at a time.
entry_start(t) ==
    /\ op.kind = "run"
    /\ work[t] = "queued"
    /\ Cardinality({u \in Targets : work[u] = "running"}) < entry.num_threads
    /\ work' = [work EXCEPT ![t] = "running"]
    /\ UNCHANGED <<hookVars, instance_configs, lxdVars, created, op, run, result>>
    /\ UNCHANGED <<sideVars, exit, results>>

\* _run(instance) in a pool process.
do_run(t) ==
    LET r == run_instance(lxd[t], trace[t], startenv_hooks, forked(env), entry.preserve,
                          t \in entry.broken)
    IN /\ op.kind = "run"
       /\ work[t] = "running"
       /\ lxd' = [lxd EXCEPT ![t] = r.lxd]
       /\ trace' = [trace EXCEPT ![t] = r.trace]
       /\ createCount' = created_calls(trace, trace')
       /\ procenv' = [procenv EXCEPT ![t] = r.store]
       /\ work' = [work EXCEPT ![t] = IF r.ok THEN "done" ELSE "failed"]
       /\ entry' = [entry EXCEPT !.ran[t] = r.result]
       /\ UNCHANGED <<hookVars, instance_configs, created, op, run, result, exit, results,
                      queries, payload, env, got, environ>>

\* `for result in results: yield result`: the results come in the order of
\* the instances, up to the first work order that raised; the pool ends.
parallel_return ==
    /\ op.kind = "run"
    /\ finished
    /\ op' = NoOp
    /\ work' = NoWork
    /\ procenv' = NoProcEnv
    /\ entry' = [entry EXCEPT
                   !.pc = "idle",
                   !.ran = NoYield,
                   !.yielded = [t \in Targets |->
                                  IF t \in Range(before_failure(op.targets, work))
                                  THEN entry.ran[t] ELSE NoResult]]
    /\ result' = Returned("parallel", failure)
    /\ UNCHANGED <<hookVars, instance_configs, lxdVars, created, run, exit, results,
                   queries, payload, env, got, environ>>

\* =========================================================================
\* Specification
\* =========================================================================

Init ==
    /\ metadata = {}
    /\ startenv = <<>>
    /\ stopenv = <<>>
    /\ registered = <<>>
    /\ instance_configs = DefaultInstances
    /\ lxd = [t \in Targets |-> "absent"]
    /\ trace = [t \in Targets |-> <<>>]
    /\ createCount = [t \in Targets |-> 0]
    /\ created = {}
    /\ op = NoOp
    /\ work = NoWork
    /\ run = NoRun
    /\ result = [op |-> "none", err |-> "none"]
    /\ exit = NoResults
    /\ results = NoResults
    /\ queries = <<>>
    /\ payload = NoPayload
    /\ env = <<>>
    /\ got = NoValue
    /\ procenv = NoProcEnv
    /\ environ = Unset
    /\ entry = NoEntry

HookLists == SeqsUpTo(Hooks, MaxArgs) \ {<<>>}
NameLists == SeqsUpTo(HookNames, 1) \ {<<>>}
ConfigLists == SeqsUpTo(Configs, 1) \ {<<>>}
ConfigNameLists == SeqsUpTo(ConfigNames, MaxArgs) \ {<<>>}

\* The pool of deploy and remove with every work order followed to its
\* end: work orders start, run and the call returns.
build_pool ==
    \/ \E t \in Targets : worker_start(t)
    \/ \E t \in Targets : do_deploy(t)
    \/ \E t \in Targets : do_remove(t)
    \/ deploy_return
    \/ remove_return

\* The pool of every call of the archon, with the cancellation of work
\* orders that a failure leaves pending.
pool ==
    \/ build_pool
    \/ \E t \in Targets : cancel(t)
    \/ \E t \in Targets : do_execute(t)
    \/ execute_return

\* Hook registry with the deploys and removes that dispatch the hooks, on
\* all the targets in one batch.
Batch == <<"a", "b">>

NextHooks ==
    \/ \E hooks \in HookLists : register_hook(hooks)
    \/ \E names \in NameLists : unregister_hook(names)
    \/ deploy(Batch, DefaultName)
    \/ remove(Batch)
    \/ build_pool

SpecHooks == Init /\ [][NextHooks]_vars

\* Instance configuration registry with the deploys that fetch from it.
NextConfig ==
    \/ \E configs \in ConfigLists : add_config(configs)
    \/ \E names \in ConfigNameLists : remove_config(names)
    \/ \E name \in ConfigNames : fetch(name)
    \/ clear
    \/ \E targets \in TargetLists, image \in ConfigNames : deploy(targets, image)
    \/ \E targets \in TargetLists : remove(targets)
    \/ build_pool

SpecConfig == Init /\ [][NextConfig]_vars

\* The hooks a test module registers, in one register_hook call, before it
\* uses the archon or a decorated function.
InitHookLists ==
    {<<>>,
     <<[name |-> "h1", cls |-> "StartEnvHook"], [name |-> "h2", cls |-> "StartEnvHook"]>>,
     <<[name |-> "h1", cls |-> "StartEnvHook"], [name |-> "h1", cls |-> "StopEnvHook"]>>}

InitRegistered ==
    \E hooks \in InitHookLists :
       LET st == register_loop([metadata |-> {}, startenv |-> <<>>, stopenv |-> <<>>,
                                registered |-> <<>>, err |-> "none"], hooks)
       IN /\ metadata = st.metadata
          /\ startenv = st.startenv
          /\ stopenv = st.stopenv
          /\ registered = st.registered

\* The archon called directly.
InitArchon ==
    /\ InitRegistered
    /\ instance_configs = DefaultInstances
    /\ lxd = [t \in Targets |-> "absent"]
    /\ trace = [t \in Targets |-> <<>>]
    /\ createCount = [t \in Targets |-> 0]
    /\ created = {}
    /\ op = NoOp
    /\ work = NoWork
    /\ run = NoRun
    /\ result = [op |-> "none", err |-> "none"]
    /\ exit = NoResults
    /\ results = NoResults
    /\ queries = <<>>
    /\ payload = NoPayload
    /\ env = <<>>
    /\ got = NoValue
    /\ procenv = NoProcEnv
    /\ environ = Unset
    /\ entry = NoEntry

NextArchon ==
    \/ \E targets \in TargetLists : deploy(targets, DefaultName)
    \/ \E targets \in TargetLists : execute(targets)
    \/ \E targets \in TargetLists : remove(targets)
    \/ destroy
    \/ pool

SpecArchon == InitArchon /\ [][NextArchon]_vars

\* Decorated functions called.  The daemon may already hold a running
\* instance that this process did not create.
InitRun ==
    /\ InitRegistered
    /\ instance_configs = DefaultInstances
    /\ lxd \in {l \in [Targets -> {"absent", "running"}] : l["a"] = "absent"}
    /\ trace = [t \in Targets |-> <<>>]
    /\ createCount = [t \in Targets |-> 0]
    /\ created = {}
    /\ op = NoOp
    /\ work = NoWork
    /\ run = NoRun
    /\ result = [op |-> "none", err |-> "none"]
    /\ exit = NoResults
    /\ results = NoResults
    /\ queries = <<>>
    /\ payload = NoPayload
    /\ env = <<>>
    /\ got = NoValue
    /\ procenv = NoProcEnv
    /\ environ = Unset
    /\ entry = NoEntry

NextRun ==
    \/ \E targets \in TargetLists, preserve \in BOOLEAN :
         lxd_run(targets, DefaultName, preserve)
    \/ run_build
    \/ run_execute
    \/ run_teardown
    \/ pool

SpecRun == InitRun /\ [][NextRun]_vars

\* The environment store used on its own.
NextEnv ==
    \/ \E env_mapping \in EnvMappings : Env_add(env_mapping)
    \/ \E env_var \in EnvKeys : Env_remove(env_var)
    \/ \E env_var \in EnvKeys, default \in Defaults : Env_get(env_var, default)
    \/ Env_clear
    \/ Env_dumps

SpecEnv == Init /\ [][NextEnv]_vars

\* push and pull on instances, some of which the daemon already holds.
InitTransfer ==
    /\ metadata = {}
    /\ startenv = <<>>
    /\ stopenv = <<>>
    /\ registered = <<>>
    /\ instance_configs = DefaultInstances
    /\ lxd \in [Targets -> {"absent", "running"}]
    /\ trace = [t \in Targets |-> <<>>]
    /\ createCount = [t \in Targets |-> 0]
    /\ created = {}
    /\ op = NoOp
    /\ work = NoWork
    /\ run = NoRun
    /\ result = [op |-> "none", err |-> "none"]
    /\ exit = NoResults
    /\ results = NoResults
    /\ queries = <<>>
    /\ payload = NoPayload
    /\ env = <<>>
    /\ got = NoValue
    /\ procenv = NoProcEnv
    /\ environ = Unset
    /\ entry = NoEntry

NextTransfer ==
    \/ \E targets \in TargetLists, uid \in Uids, username \in Usernames,
          gid \in Uids, groupname \in Groupnames :
         push(targets, uid, username, gid, groupname)
    \/ \E target \in Targets, uid \in Uids, username \in Usernames,
          gid \in Uids, groupname \in Groupnames, found \in BOOLEAN :
         pull(target, uid, username, gid, groupname, found)
    \/ \E t \in Targets : worker_start(t)
    \/ \E t \in Targets : do_push(t)
    \/ push_return

SpecTransfer == InitTransfer /\ [][NextTransfer]_vars

\* Target strategies run on instances the daemon already holds.
InitTarget ==
    /\ InitRegistered
    /\ instance_configs = DefaultInstances
    /\ lxd \in [Targets -> {"absent", "running"}]
    /\ trace = [t \in Targets |-> <<>>]
    /\ createCount = [t \in Targets |-> 0]
    /\ created = {}
    /\ op = NoOp
    /\ work = NoWork
    /\ run = NoRun
    /\ result = [op |-> "none", err |-> "none"]
    /\ exit = NoResults
    /\ results = NoResults
    /\ queries = <<>>
    /\ payload = NoPayload
    /\ env = <<>>
    /\ got = NoValue
    /\ procenv = NoProcEnv
    /\ environ = Unset
    /\ entry = NoEntry

NextTarget ==
    \/ \E targets \in TargetLists, found \in BOOLEAN : target_run(targets, found)
    \/ target_execute
    \/ \E targets \in TargetLists : serial_target(targets)
    \/ serial_target_next
    \/ \E t \in Targets : worker_start(t)
    \/ \E t \in Targets : do_push(t)
    \/ push_return
    \/ \E t \in Targets : cancel(t)
    \/ \E t \in Targets : do_execute(t)
    \/ execute_return

SpecTarget == InitTarget /\ [][NextTarget]_vars

\* Decorators constructed with and without num_threads, and deploys through
\* the pool.
NextThreads ==
    \/ \E num_threads \in NumThreads : lxd_init(num_threads)
    \/ \E targets \in TargetLists : deploy(targets, DefaultName)
    \/ \E t \in Targets : worker_start(t)
    \/ \E t \in Targets : do_deploy(t)
    \/ deploy_return

SpecThreads == Init /\ [][NextThreads]_vars

\* Fresh strategies of the provider decorator, serial and parallel, on
\* instances that are created as needed.
NumThreadsGiven == 1..Cardinality(Targets)
InitStrategy ==
    /\ InitRegistered
    /\ instance_configs = DefaultInstances
    /\ lxd = [t \in Targets |-> "absent"]
    /\ trace = [t \in Targets |-> <<>>]
    /\ createCount = [t \in Targets |-> 0]
    /\ created = {}
    /\ op = NoOp
    /\ work = NoWork
    /\ run = NoRun
    /\ result = [op |-> "none", err |-> "none"]
    /\ exit = NoResults
    /\ results = NoResults
    /\ queries = <<>>
    /\ payload = NoPayload
    /\ env \in {<<>>, <<[key |-> "k", val |-> EnvStr(<<"x">>)]>>}
    /\ got = NoValue
    /\ procenv = NoProcEnv
    /\ environ = Unset
    /\ entry = NoEntry

NextStrategy ==
    \/ \E targets \in TargetLists, preserve \in BOOLEAN, broken \in SUBSET Targets :
         serial(targets, preserve, broken)
    \/ \E targets \in TargetLists, preserve \in BOOLEAN, num_threads \in NumThreadsGiven,
          broken \in SUBSET Targets :
         parallel(targets, preserve, num_threads, broken)
    \/ \E t \in Targets : entry_start(t)
    \/ \E t \in Targets : do_run(t)
    \/ \E t \in Targets : cancel(t)
    \/ parallel_return

SpecStrategy == InitStrategy /\ [][NextStrategy]_vars

\* _HookRegistry.clear with the queues left as they are.
HookRegistry_clear_metadata ==
    [metadata |-> {}, startenv |-> startenv, stopenv |-> stopenv]

\* _HookRegistry.clear: a new set and two new deques.
HookRegistry_clear == [metadata |-> {}, startenv |-> <<>>, stopenv |-> <<>>]

\* The explicit reset between independent runs: the configurer is cleared
\* (default instance configurations, then the hook registry), then the
\* environment store.
clean_slate ==
    /\ Idle
    /\ instance_configs' = DefaultInstances
    /\ metadata' = HookRegistry_clear.metadata
    /\ startenv' = HookRegistry_clear.startenv
    /\ stopenv' = HookRegistry_clear.stopenv
    /\ registered' = <<>>
    /\ env' = <<>>
    /\ result' = Returned("clean_slate", "none")
    /\ UNCHANGED <<lxdVars, created, op, work, run, exit, results, queries, payload, got,
                   procenv, environ, entry>>

\* The registries filled, reset and used by deploys of single targets.
RegistryHooks == {h \in Hooks : h.name = "h1"}
RegistryConfigs == {[name |-> "X", alias |-> "custom"]}
RegistryEnv ==
    {<<[key |-> "k", val |-> EnvList(<<"a">>)]>>, <<[key |-> "k", val |-> EnvStr(<<"x">>)]>>}

NextRegistry ==
    \/ \E hook \in RegistryHooks : register_hook(<<hook>>)
    \/ \E hook \in RegistryHooks : unregister_hook(<<hook.name>>)
    \/ \E config \in RegistryConfigs : add_config(<<config>>)
    \/ \E env_mapping \in RegistryEnv : Env_add(env_mapping)
    \/ clean_slate
    \/ \E t \in Targets : deploy(<<t>>, DefaultName)
    \/ \E t \in Targets : worker_start(t)
    \/ \E t \in Targets : do_deploy(t)
    \/ deploy_return

SpecRegistry == Init /\ [][NextRegistry]_vars

\* Injectables serialized, carried and deserialized.
NextInject ==
    \/ \E cls \in Range(Classes) : \E args \in InjectableArgs(cls) :
         new_injectable(cls, args)
    \/ load
    \/ dumps
    \/ \E i \in 1..8, k \in 0..7 : flip(i, k)
    \/ deserialize

SpecInject == Init /\ [][NextInject]_vars

Next == NextHooks \/ NextConfig \/ NextArchon \/ NextRun \/ NextInject \/ NextTransfer
          \/ NextTarget \/ NextEnv \/ NextRegistry \/ NextThreads \/ NextStrategy

Spec == Init /\ [][Next]_vars

\* =========================================================================
\* Properties
\* =========================================================================

StartHooksIn(tr) == SelectSeq(tr, LAMBDA e : e.ev = "starthook")
StartHooksOf(q) == SelectSeq(q, LAMBDA h : h.cls = "StartEnvHook")
StopHooksOf(q) == SelectSeq(q, LAMBDA h : h.cls = "StopEnvHook")
Names(q) == [i \in 1..Len(q) |-> q[i].name]
HookNamesIn(tr) == [i \in 1..Len(tr) |-> tr[i].hook]
InQueue(hook) ==
    \/ hook.cls = "StartEnvHook" /\ hook \in Range(startenv)
    \/ hook.cls = "StopEnvHook" /\ hook \in Range(stopenv)

\* C1: deploy of a target that an earlier deploy created, and that still
\* exists, does not create it again: its work order issues no create call
\* (the creation count stays as it was), finishes without error and leaves
\* the target running.
C1_DeployExistingNotRecreated ==
    [][\A t \in Targets :
         (do_deploy(t) /\ t \in created /\ exists(t))
           => /\ createCount'[t] = createCount[t]
              /\ work'[t] = "done"
              /\ lxd'[t] = "running"]_vars

\* C2: execute raises the not-found error when any target of the list does
\* not exist, and raises before the command has run in any target: no work
\* order is submitted and no instance serves a call.
C2_ExecuteFailsFast ==
    [][\A targets \in TargetLists :
         (execute(targets) /\ \E t \in Range(targets) : lxd[t] = "absent")
           => /\ result' = [op |-> "execute", err |-> "Error"]
              /\ op' = NoOp
              /\ work' = NoWork
              /\ trace' = trace]_vars

\* C2 witness: an execute call has raised while one instance exists, with
\* no command run in it, and another does not.
C2_Witness ==
    /\ result = [op |-> "execute", err |-> "Error"]
    /\ \E t, u \in Targets :
         /\ lxd[t] = "running" /\ Count(trace[t], "exec") = 0
         /\ lxd[u] = "absent"

Built(t) == trace[t] # <<>> /\ trace[t][1].ev = "create"

\* The calls made in a target before call i, since it was last created.
Life(tr, i) ==
    LET creates == {j \in 1..i : tr[j].ev = "create"}
        c == CHOOSE j \in creates : \A k \in creates : k <= j
    IN SubSeq(tr, c, i - 1)

C4_DuplicateRejected ==
    [][\A hook \in Hooks :
         (register_hook(<<hook>>) /\ InQueue(hook))
           => /\ result' = [op |-> "register_hook", err |-> "Error"]
              /\ UNCHANGED <<metadata, startenv, stopenv>>]_vars

\* C5: the start hooks are dispatched in a target in the order in which
\* they were registered.
C5_DispatchFifo ==
    [][\A t \in Targets :
         (do_deploy(t) /\ lxd[t] = "absent" /\ lxd'[t] = "running")
           => HookNamesIn(StartHooksIn(trace'[t])) = Names(StartHooksOf(registered))]_vars

\* C5 witness: h1, h2, h3 were registered in that order and every target has
\* had them dispatched.
C5_Witness ==
    /\ Names(StartHooksOf(registered)) = <<"h1", "h2", "h3">>
    /\ \A t \in Targets : HookNamesIn(StartHooksIn(trace[t])) = <<"h1", "h2", "h3">>

\* C6: unregister_hook of the name of a registered hook returns without
\* error, and afterwards no queue holds a hook of that name and the
\* membership set has no pair with it.
C6_UnregisterRemoves ==
    [][\A n \in HookNames :
         (unregister_hook(<<n>>) /\ \E h \in Range(startenv) \cup Range(stopenv) : h.name = n)
           => /\ result' = [op |-> "unregister_hook", err |-> "none"]
              /\ \A h \in Range(startenv') \cup Range(stopenv') : h.name # n
              /\ \A m \in metadata' : m[1] # n]_vars

\* C7: a work order that dispatches hooks in a target pops a copy: the
\* registry's queues are the same after it as before, and a target that is
\* built is dispatched as many start hooks as the registry holds.
C7_SnapshotsAreCopies ==
    [][\A t \in Targets :
         (do_deploy(t) \/ do_remove(t))
           => /\ startenv' = startenv
              /\ stopenv' = stopenv
              /\ lxd[t] = "absent" /\ lxd'[t] = "running"
                   => Len(StartHooksIn(trace'[t])) = Len(startenv')]_vars

\* C7 witness: start hooks have been dispatched in every target, a remove
\* has popped the stop hooks, and both queues still hold hooks.
C7_Witness ==
    /\ startenv # <<>>
    /\ stopenv # <<>>
    /\ \A t \in Targets : lxd[t] = "running" /\ StartHooksIn(trace[t]) # <<>>
    /\ result.op = "remove"

\* C8: add_config raises exactly when a config of that name is stored; when
\* it raises the registry is unchanged, when it does not the config is what
\* fetch_config returns for the name.
C8_AddRejectsStoredName ==
    [][\A c \in Configs :
         add_config(<<c>>)
           => LET stored == \E i \in 1..Len(instance_configs) :
                               instance_configs[i].cfg.name = c.name
              IN /\ (result'.err = "Error") <=> stored
                 /\ stored => instance_configs' = instance_configs
                 /\ ~stored => fetch_config(instance_configs', c.name).cfg = c]_vars

\* C9: a deploy work order, which renames the config it fetched to the
\* target's name, leaves the registry unchanged.
C9_FetchIsCopy ==
    [][\A t \in Targets : do_deploy(t) => instance_configs' = instance_configs]_vars

\* C9 witness: a deploy from image X has built a target and X is still
\* fetched under its name.
C9_Witness ==
    /\ op.kind = "deploy" /\ op.image = "X"
    /\ \E t \in Targets : work[t] = "done" /\ lxd[t] = "running"
    /\ fetch_config(instance_configs, "X").found

\* C10: remove_config returns without error, after it no config of a
\* removed name is fetched, and every other entry is as it was.
C10_RemoveIdempotent ==
    [][\A names \in ConfigNameLists :
         remove_config(names)
           => /\ result' = [op |-> "remove_config", err |-> "none"]
              /\ \A n \in Range(names) : ~fetch_config(instance_configs', n).found
              /\ \A i \in 1..Len(instance_configs) :
                   instance_configs[i].cfg.name \notin Range(names)
                     => instance_configs[i] \in Range(instance_configs')]_vars

\* C11: _loads of data that differs from the data the checksum was computed
\* over does not reconstruct an object: it ends in an error.
C11_CorruptedNeverLoads ==
    (payload.outcome # "-" /\ payload.data # payload.sent)
      => payload.outcome # "loaded"

\* C12: _loads of the checksum and data that _dumps produced for an object
\* succeeds and makes an object with the same class and the same
\* attributes, public and private.
C12_RoundTrip ==
    (payload.outcome # "-" /\ payload.data = payload.sent)
      => /\ payload.outcome = "loaded"
         /\ payload.made = payload.obj

\* C13: push and pull called with both a uid and a username, or with both a
\* gid and a groupname, raise whatever the values are, and no call to the
\* client has been made when they raise.
C13_OwnerConflictRaisesFirst ==
    [][\A uid \in Uids, username \in Usernames, gid \in Uids, groupname \in Groupnames :
         ((uid # "None" /\ username # "None") \/ (gid # "None" /\ groupname # "None"))
           => /\ \A targets \in TargetLists :
                   push(targets, uid, username, gid, groupname)
                     => /\ result' = [op |-> "push", err |-> "Error"]
                        /\ queries' = <<>>
                        /\ op' = NoOp
              /\ \A target \in Targets, found \in BOOLEAN :
                   pull(target, uid, username, gid, groupname, found)
                     => /\ result' = [op |-> "pull", err |-> "Error"]
                        /\ queries' = <<>>
                        /\ trace' = trace]_vars

\* C14: remove(targets) called for existing targets dispatches every
\* registered stop hook in each target, then stops it, then deletes it, and
\* when the call is over none of the targets exists.
C14_RemoveHooksStopDelete ==
    [][(remove_return /\ op.via = "caller")
         => \A t \in Range(op.targets) :
              LET tr == trace[t]
                  n == Len(tr)
                  k == Len(stopenv)
              IN /\ lxd'[t] = "absent"
                 /\ n >= k + 2
                 /\ tr[n].ev = "delete"
                 /\ tr[n - 1].ev = "stop"
                 /\ HookNamesIn(SubSeq(tr, n - 1 - k, n - 2))
                      = Names(pop_order(stopenv))]_vars

\* C15: once destroy() has returned, no instance that deploy ever created
\* still exists (the daemon holds no other instances here).
C15_DestroyRemovesAll ==
    (op.kind = "none" /\ result = [op |-> "destroy", err |-> "none"])
      => \A t \in Targets : Built(t) => ~exists(t)

C18_OthersRunToCompletion ==
    [][((deploy_return \/ execute_return) /\ failure = "Error")
         => /\ op.via = "caller" => result'.err = "Error"
            /\ \A t \in Range(op.targets) : work[t] \in {"done", "failed"}
            /\ lxd' = lxd
            /\ trace' = trace]_vars

C17_CompleteMapOrError ==
    [][(results' # results /\ results' # NoResults)
         => LET targets == IF op.kind # "none" THEN op.targets ELSE run.targets
            IN \A t \in Range(targets) : results'[t] \in ExitCodes]_vars

\* C20: adding a list under a key that already holds a list appends to it:
\* after the add the store holds the old entries followed by the new ones,
\* and get returns them all, in that order, joined with the path separator.
C20_ListsAppend ==
    [][\A env_mapping \in EnvMappings :
         Env_add(env_mapping)
           => \A i \in 1..Len(env_mapping) :
                LET k == env_mapping[i].key
                    v == env_mapping[i].val
                IN (has_key(env, k) /\ lookup(env, k).list /\ v.list)
                     => lookup(env', k).items = lookup(env, k).items \o v.items]_vars

CountName(q, n) == Cardinality({i \in 1..Len(q) : q[i].name = n})

\* C21: a hook whose name is not held by the queue of its own class is
\* registered without error whatever the queue of the other class holds, its
\* own queue then holds exactly one hook of that name and the other queue is
\* left as it was: a start hook and a stop hook of one name are both
\* registered, in either order.
C21_UniquePerClass ==
    [][\A hook \in Hooks :
         (register_hook(<<hook>>) /\ ~InQueue(hook))
           => LET own == IF hook.cls = "StartEnvHook" THEN startenv' ELSE stopenv'
              IN /\ result' = [op |-> "register_hook", err |-> "none"]
                 /\ CountName(own, hook.name) = 1
                 /\ hook.cls = "StartEnvHook" => stopenv' = stopenv
                 /\ hook.cls = "StopEnvHook" => startenv' = startenv]_vars

\* C21 witness: the start queue and the stop queue each hold exactly one
\* hook named h1, the last registration having returned without error.
C21_Witness ==
    /\ CountName(startenv, "h1") = 1
    /\ CountName(stopenv, "h1") = 1
    /\ result = [op |-> "register_hook", err |-> "none"]

\* C22: the reset leaves both hook queues and the membership set empty, the
\* configuration registry with the default instances only and the
\* environment store empty; a hook or a config name not registered since the
\* reset is registered without error, whatever was registered before it, and
\* a target that is built is dispatched the start hooks registered since the
\* reset and no other.
C22_ResetRestoresInitial ==
    [][/\ clean_slate
            => /\ metadata' = {} /\ startenv' = <<>> /\ stopenv' = <<>>
               /\ instance_configs' = DefaultInstances
               /\ env' = <<>>
       /\ \A hook \in Hooks :
            (register_hook(<<hook>>) /\ hook \notin Range(registered))
              => result' = [op |-> "register_hook", err |-> "none"]
       /\ \A config \in Configs :
            (add_config(<<config>>) /\ instance_configs = DefaultInstances)
              => /\ result' = [op |-> "add_config", err |-> "none"]
                 /\ fetch_config(instance_configs', config.name).found
       /\ \A t \in Targets :
            (do_deploy(t) /\ lxd[t] = "absent" /\ lxd'[t] = "running")
              => HookNamesIn(StartHooksIn(trace'[t]))
                   = Names(StartHooksOf(registered))]_vars

\* C22 witness: target a was built while two start hooks named h1 were
\* registered; after a reset one start hook named h1 was registered again and
\* target b, built then, was dispatched that one hook only.
C22_Witness ==
    /\ Len(StartHooksIn(trace["a"])) = 2
    /\ registered = <<[name |-> "h1", cls |-> "StartEnvHook"]>>
    /\ startenv = registered
    /\ HookNamesIn(StartHooksIn(trace["b"])) = <<"h1">>
    /\ lxd["b"] = "running"

\* C26: whatever calls of register_hook, unregister_hook and the reset were
\* made, the membership set is the set of (name, class name) pairs of the
\* hooks the two queues hold, and no queue holds two hooks of one name.
C26_MembershipMatchesQueues ==
    /\ metadata = {<<h.name, h.cls>> : h \in Range(startenv) \cup Range(stopenv)}
    /\ \A n \in HookNames : CountName(startenv, n) <= 1 /\ CountName(stopenv, n) <= 1

\* C23: a command run by execute in an instance whose deploy dispatched a
\* start hook with a Charmlib package gets the package's PYTHONPATH
\* contribution in its process environment.
C23_ContributionsReachExecute ==
    [][\A t \in Targets :
         (/\ do_execute(t)
          /\ \E i \in 1..Len(trace[t]) :
                trace[t][i].ev = "starthook" /\ trace[t][i].hook \in CharmlibHooks)
         => has_key(env_dumps(procenv'[t]), "PYTHONPATH")]_vars

\* C24: the work orders running at the same time are never more than the
\* pool size, which is the num_threads the decorator was given when it was
\* given one and the host's core count otherwise.
C24_PoolSizeHonoursOverride ==
    Cardinality({t \in Targets : work[t] = "running"})
       <= (IF environ = Unset THEN CpuCount ELSE environ.val)

\* C25: when a fresh run turns to its next target, the target before it has
\* had the testlet executed in it and, with preserve off, is gone.
C25_SerialOneAtATime ==
    [][(run_build /\ run.i > 1)
         => LET before == run.targets[run.i - 1]
            IN /\ Count(trace[before], "exec") > 0
               /\ ~run.preserve => ~exists(before)]_vars

\* C27: while no call of the archon is in progress, every name in its set of
\* created instances is the name of an instance that exists, so that the
\* existence loop of destroy() finds nothing missing.
C27_CreatedNamesExist ==
    (op.kind = "none" /\ run.pc = "idle") => \A t \in created : exists(t)

\* C28: when a deploy call ends, every target whose work order ran to its
\* end, and so created its instance, is in the set of created instances,
\* whatever became of the other work orders.
C28_BatchCreatedRecorded ==
    [][deploy_return
         => \A t \in Range(op.targets) : work[t] = "done" => t \in created']_vars

\* C30: the teardown of a fresh run with preserve off stops and deletes
\* only targets of the run, and when it has ended without error every target
\* of the run is absent.
C30_TearsDownOwnTargets ==
    [][/\ (remove_return /\ op.via = "run" /\ failure = "none")
            => \A t \in Range(run.targets) : lxd'[t] = "absent"
       /\ \A t \in Targets :
            (do_remove(t) /\ op.via = "run" /\ lxd'[t] = "absent")
               => t \in Range(run.targets)]_vars

====
